---- MODULE Spec2Model ----
(***************************************************************************)
(* Model of the ytm-playlist-importer (src/unnamed/part_000, lines 1-340,  *)
(* and src/src/utils.ts).  The program is one async coroutine,             *)
(* addPlaylist, that suspends at every awaited remote call.  The state is  *)
(* the coroutine's position and locals, the account's YouTube playlists    *)
(* and the Redis cache.  Every action is "the answer of the pending remote *)
(* call arrives, and the code runs on to the next awaited call".           *)
(***************************************************************************)
EXTENDS Integers, Sequences, FiniteSets, TLC

\* ------------------------------------------------------------------ bounds
\* Longest CSV (number of data rows) the user selects.
MaxRows == 2
\* Number of files the user selects at the prompt before choosing "exit".
MaxRuns == 2
\* Seconds by which one Tick of the clock ages the cache.
TickStep == 43200
\* Remote calls (Redis, YouTube, prompt) that fail by rejecting, in all.
MaxFaults == 1
\* Playlists of the small accounts the locator is tried on.
MaxAccount == 3

\* --------------------------------------------------------- program constants
\* an expiry of one hour in place of 24
CacheTtlHour == 60 * 60
\* client.expire(key, 86400)
CacheTtl == 86400
\* a listing page of 50 playlists in place of 20
PlaylistPageFifty == 5 * 10
\* playlists.list maxResults
PlaylistPage == 20
\* playlistItems.list maxResults
ItemsPage == 50
\* search.list maxResults
SearchPage == 1
\* Redis reports -1 as the TTL of a key that has no expiry (the state SET leaves)
NoExpiry == -1
\* the null playlist id of { exists: false, id: null }
NullId == 0

\* ------------------------------------------------------------- input domains
ArtistCol == "Artist Name(s)"
NameCol == "Track Name"

\* A CSV row as papaparse (header: true) yields it: a map from column to string.
TrackAX == (ArtistCol :> "A") @@ (NameCol :> "X")
TrackBY == (ArtistCol :> "B") @@ (NameCol :> "Y")
Tracks == {TrackAX, TrackBY}

\* A row whose artist and track fields are both empty strings.
TrackBlank == (ArtistCol :> "") @@ (NameCol :> "")
\* The row papaparse yields for the empty line that ends a file: only the first
\* column is there, the artist and track columns are absent.
TrackTrailing == ("Track URI" :> "")
BlankTracks == {TrackBlank, TrackTrailing}

\* Two rows with different (artist, track) pairs whose fields hold a '-'.
TrackAB_C == (ArtistCol :> "A-B") @@ (NameCol :> "C")
TrackA_BC == (ArtistCol :> "A") @@ (NameCol :> "B-C")
DashTracks == {TrackAB_C, TrackA_BC}

AllTracks == Tracks \cup BlankTracks \cup DashTracks

Videos == {"v1", "v2"}

\* results.data of the selected file: every sequence of at most MaxRows rows
RowSeqs == UNION {[1..n -> Tracks] : n \in 0..MaxRows}
\* files of one row more than MaxRows
LongRowSeqs == [1..(MaxRows + 1) -> Tracks]
\* files of at most one row
ShortRowSeqs == UNION {[1..n -> {TrackAX}] : n \in 0..1}
\* files whose rows have no artist and no track
BlankRowSeqs == UNION {[1..n -> BlankTracks] : n \in 0..MaxRows}
\* files whose rows hold a '-' in their fields
DashRowSeqs == UNION {[1..n -> DashTracks] : n \in 0..MaxRows}

\* The files of the playlists directory, as character sequences.
FileA == <<"a", ".", "c", "s", "v">>
FileMyL == <<"m", "y", "_", "l", ".", "c", "s", "v">>
FileNames == {FileA, FileMyL}

\* ------------------------------------------------------------ utils.ts title
\* String.prototype.toUpperCase on the characters the file names use
ToUpperCase(c) ==
  CASE c = "a" -> "A"
    [] c = "m" -> "M"
    [] c = "y" -> "Y"
    [] c = "l" -> "L"
    [] c = "c" -> "C"
    [] c = "s" -> "S"
    [] c = "v" -> "V"
    [] OTHER -> c

RECURSIVE Split(_, _)
\* s.split(sep) for a one-character separator
Split(s, sep) ==
  IF \E i \in 1..Len(s) : s[i] = sep
  THEN LET i == CHOOSE j \in 1..Len(s) :
                  s[j] = sep /\ \A k \in 1..(j - 1) : s[k] # sep
       IN <<SubSeq(s, 1, i - 1)>> \o Split(SubSeq(s, i + 1, Len(s)), sep)
  ELSE <<s>>

\* word.includes(pat)
Includes(word, pat) ==
  \E i \in 1..(Len(word) - Len(pat) + 1) : SubSeq(word, i, i + Len(pat) - 1) = pat

RECURSIVE Concat(_)
\* the JavaScript string made of the characters of cs
Concat(cs) == IF cs = <<>> THEN "" ELSE Head(cs) \o Concat(Tail(cs))

\* the .map callback of getCsvFile: drop 4 characters of a word holding ".csv",
\* then upper-case the first character
TitleWord(word) ==
  LET w == IF Includes(word, <<".", "c", "s", "v">>)
           THEN SubSeq(word, 1, Len(word) - 4)
           ELSE word
  IN IF w = <<>> THEN "" ELSE ToUpperCase(Head(w)) \o Concat(Tail(w))

RECURSIVE Join(_, _)
\* words.join(sep)
Join(words, sep) ==
  IF words = <<>> THEN ""
  ELSE IF Len(words) = 1 THEN Head(words)
  ELSE Head(words) \o sep \o Join(Tail(words), sep)

\* filename of getCsvFile: answer.file.split('_').map(...).join(' ')
TitleOf(file) ==
  LET words == Split(file, "_")
  IN Join([i \in 1..Len(words) |-> TitleWord(words[i])], " ")

\* ----------------------------------------------------------- keys and queries
\* `${data[col]}`: an absent column renders as "undefined"
Field(data, col) == IF col \in DOMAIN data THEN data[col] ELSE "undefined"

createRedisKey(data) ==
  "youtube-data-for-" \o Field(data, ArtistCol) \o "-" \o Field(data, NameCol)

\* const query of addTrack
QueryOf(data) == Field(data, ArtistCol) \o " " \o Field(data, NameCol)

\* the error thrown with no word of the query
NoItemsMessageBare(query) == "No items were returned"

\* new Error(`No items were returned for query: ${query}`)
NoItemsMessage(query) == "No items were returned for query: " \o query

Keys == {createRedisKey(t) : t \in AllTracks}

\* ------------------------------------------------------------ search results
\* One youtube_v3.Schema$SearchResult: the fields the program reads.
Candidate(v) == [id |-> [videoId |-> v], snippet |-> [title |-> "title of " \o v]]

\* searchResults.data.items: absent, or an array of at most SearchPage results
Undefined == [isArray |-> FALSE, items |-> <<>>]
ArrayOf(items) == [isArray |-> TRUE, items |-> items]
SearchItems ==
  {Undefined} \cup
  {ArrayOf(items) :
     items \in UNION {[1..n -> {Candidate(v) : v \in Videos}] : n \in 0..SearchPage}}

\* lodash isArray
isArray(x) == x.isArray

RECURSIVE StringifyItems(_)
StringifyItems(items) ==
  IF items = <<>> THEN ""
  ELSE LET c == Head(items)
           one == "{\"id\":{\"videoId\":\"" \o c.id.videoId
                    \o "\"},\"snippet\":{\"title\":\"" \o c.snippet.title \o "\"}}"
       IN IF Len(items) = 1 THEN one ELSE one \o "," \o StringifyItems(Tail(items))

\* JSON.stringify of an array of search results
JSONstringify(x) == "[" \o StringifyItems(x.items) \o "]"

\* JSON.parse: the array a text of JSON.stringify stands for; of anything else
\* (JSON.parse(null) is null) a value that is no array
JSONparse(s) ==
  IF \E x \in SearchItems : isArray(x) /\ JSONstringify(x) = s
  THEN CHOOSE x \in SearchItems : isArray(x) /\ JSONstringify(x) = s
  ELSE Undefined

\* -------------------------------------------------------------- Redis store
\* A key of the store: absent, or a string value with a remaining TTL.
Absent == [present |-> FALSE, val |-> "", ttl |-> NoExpiry]
\* the reply of GET: nil, or the stored string
NilReply == [nil |-> TRUE, str |-> ""]

\* client.get(key)
RedisGet(c, key) ==
  IF c[key].present THEN [nil |-> FALSE, str |-> c[key].val] ELSE NilReply

\* client.set(key, value): stores the value and discards any TTL of the key
RedisSet(c, key, value) ==
  [c EXCEPT ![key] = [present |-> TRUE, val |-> value, ttl |-> NoExpiry]]

\* client.expire(key, seconds)
RedisExpire(c, key, seconds) ==
  IF c[key].present THEN [c EXCEPT ![key].ttl = seconds] ELSE c

\* the store d seconds later: keys whose TTL ran out are gone
Age(c, d) ==
  [k \in DOMAIN c |->
     IF c[k].present /\ c[k].ttl # NoExpiry
     THEN IF c[k].ttl <= d THEN Absent ELSE [c[k] EXCEPT !.ttl = c[k].ttl - d]
     ELSE c[k]]

\* the cache reply never taken: the resolve always searches
TruthyNever(reply) == FALSE

\* if (cacheData): a JavaScript string is truthy unless null or empty
Truthy(reply) == ~reply.nil /\ reply.str # ""

\* ------------------------------------------------------------- YouTube account
Min(a, b) == IF a <= b THEN a ELSE b

Playlist(id, title, items) ==
  [id |-> id, snippet |-> [title |-> title], items |-> items]

\* service.playlists.list({ mine: true, maxResults: 20 }): the first page only
ListPlaylists(pls) == SubSeq(pls, 1, Min(Len(pls), PlaylistPage))

\* service.playlistItems.list({ playlistId, videoId, maxResults: 50 }).data.items
ListItems(pls, playlistId, videoId) ==
  LET hits == UNION {{<<i, j>> : j \in {j \in 1..Len(pls[i].items) :
                                         pls[i].items[j] = videoId}} :
                     i \in {i \in 1..Len(pls) : pls[i].id = playlistId}}
  IN IF Cardinality(hits) <= ItemsPage THEN hits
     ELSE CHOOSE page \in SUBSET hits : Cardinality(page) = ItemsPage

\* the insert made with snippet.position 0: the video becomes the first item
InsertItemFirst(pls, playlistId, videoId) ==
  [i \in 1..Len(pls) |->
     IF pls[i].id = playlistId
     THEN [pls[i] EXCEPT !.items = <<videoId>> \o @]
     ELSE pls[i]]

\* service.playlistItems.insert: the video becomes the playlist's last item
InsertItem(pls, playlistId, videoId) ==
  [i \in 1..Len(pls) |->
     IF pls[i].id = playlistId
     THEN [pls[i] EXCEPT !.items = Append(@, videoId)]
     ELSE pls[i]]

\* the places in the account's listing of the playlists of this title
Titled(pls, title) == {i \in 1..Len(pls) : pls[i].snippet.title = title}

\* whether the account has a playlist of this id
PlaylistExists(pls, playlistId) == \E i \in 1..Len(pls) : pls[i].id = playlistId

\* the id the service gives a new playlist
NewId(pls) == Len(pls) + 1

\* service.playlists.insert({ snippet: { title } }); the account lists the new
\* playlist first or last
CreatePlaylist(pls, title, first) ==
  IF first THEN <<Playlist(NewId(pls), title, <<>>)>> \o pls
  ELSE Append(pls, Playlist(NewId(pls), title, <<>>))

\* the scan that keeps the last match of the page instead of returning at the
\* first
playlistAlreadyExistsLast(page, title) ==
  IF \E i \in 1..Len(page) : page[i].snippet.title = title
  THEN LET i == CHOOSE j \in 1..Len(page) :
                  /\ page[j].snippet.title = title
                  /\ \A k \in (j + 1)..Len(page) : page[k].snippet.title # title
       IN [exists |-> TRUE, id |-> page[i].id]
  ELSE [exists |-> FALSE, id |-> NullId]

\* playlistAlreadyExists: the scan of the listed page
playlistAlreadyExists(page, title) ==
  IF \E i \in 1..Len(page) : page[i].snippet.title = title
  THEN LET i == CHOOSE j \in 1..Len(page) :
                  /\ page[j].snippet.title = title
                  /\ \A k \in 1..(j - 1) : page[k].snippet.title # title
       IN [exists |-> TRUE, id |-> page[i].id]
  ELSE [exists |-> FALSE, id |-> NullId]

\* the membership check answering "not a member" whatever the playlist holds
videoIsAlreadyInPlaylistNever(pls, videoId, playlistId) == FALSE

\* the membership check with one negation: !videoInPlaylist.data.items.length
videoIsAlreadyInPlaylistNegated(pls, videoId, playlistId) ==
  Cardinality(ListItems(pls, playlistId, videoId)) = 0

\* videoIsAlreadyInPlaylist: !!videoInPlaylist.data.items.length
videoIsAlreadyInPlaylist(pls, videoId, playlistId) ==
  Cardinality(ListItems(pls, playlistId, videoId)) # 0

\* The account the tool is started on: its first page is full, and its last
\* entry is a playlist already named like the first file, holding v1.
InitAccount ==
  [i \in 1..PlaylistPage |->
     IF i < PlaylistPage THEN Playlist(i, "Other", <<>>)
     ELSE Playlist(i, TitleOf(FileA), <<"v1">>)]

\* Small accounts: at most MaxAccount playlists, titled like a file, or like a
\* file but for the case of a letter.
AccountTitles == {TitleOf(f) : f \in FileNames} \cup {"a"}
Accounts ==
  {[i \in 1..n |-> Playlist(i, titles[i], <<>>)] :
     n \in 0..MaxAccount, titles \in [1..MaxAccount -> AccountTitles]}

\* ----------------------------------------------------------------- the state
VARIABLES
  pc,               \* the remote call addPlaylist is suspended on, or its end
  invocations,      \* addPlaylist invocations of this process so far
  runs,             \* files selected at the prompt so far
  filename,         \* addPlaylist: the playlist title
  results,          \* addPlaylist: results.data, the rows of the file
  exists,           \* addPlaylist: exists
  existingId,       \* addPlaylist: existingId
  resolvedId,       \* addPlaylist: resolvedId
  track,            \* addPlaylist: index of the row the for loop is at
  cacheData,        \* getYoutubeTrackData: cacheData
  youtubeTrackData, \* getYoutubeTrackData / addTrack: youtubeTrackData
  checked,          \* addTrack: the membership check made for this row
  rejection,        \* why the promise of addPlaylist was rejected
  playlists,        \* the account: its playlists in listing order, with items
  cache,            \* the Redis store
  written,          \* per key, what the resolve that last wrote it returned
  faults,           \* remote calls that rejected so far
  hist,             \* what the current run did, and how it relates to the last
  connected,        \* whether client.connect() of init has completed
  credentials       \* oauth2Client.credentials: none, or where they came from

vars ==
  <<pc, invocations, runs, filename, results, exists, existingId, resolvedId,
    track, cacheData, youtubeTrackData, checked, rejection, playlists, cache,
    written, faults, hist, connected, credentials>>

\* the state of the startup: the cache connection and the auth handle
startup == <<connected, credentials>>

NoCheck == [done |-> FALSE, videoId |-> "", playlistId |-> NullId, ret |-> FALSE]

\* The record of a run: again, prevOK, prevId relate it to the run before;
\* resolved and inserted list <<row, videoId>> for the rows whose resolve returned
\* a top candidate and whose insert succeeded; wrote holds <<key, row data>> for
\* the client.set commands; touched tells whether the resolve of the current row
\* has issued client.set; message is the message of the error thrown; beyond
\* tells whether the account had a playlist of the title past the listed page;
\* exchangeFailed tells whether a token exchange of this process has failed.
NoHist ==
  [again |-> FALSE, prevOK |-> FALSE, prevId |-> NullId, inserts |-> 0,
   insertFailed |-> FALSE, searched |-> FALSE, creates |-> 0,
   createFailed |-> FALSE, completed |-> FALSE,
   resolved |-> <<>>, inserted |-> <<>>, wrote |-> {}, touched |-> FALSE,
   message |-> "", beyond |-> FALSE, exchangeFailed |-> FALSE]

\* The locals of addPlaylist, the store and the account of these playlists
\* when the process starts.
Fresh(account) ==
  /\ runs = 0
  /\ filename = ""
  /\ results = <<>>
  /\ exists = FALSE
  /\ existingId = NullId
  /\ resolvedId = NullId
  /\ track = 0
  /\ cacheData = NilReply
  /\ youtubeTrackData = Undefined
  /\ checked = NoCheck
  /\ rejection = "none"
  /\ playlists = account
  /\ cache = [k \in Keys |-> Absent]
  /\ written = [k \in Keys |-> Undefined]
  /\ faults = 0
  /\ hist = NoHist

\* The state when authorize, with the token parsed from disk, hands the client
\* to addPlaylist, which calls getCsvFile and waits at its prompt; the cache
\* connection has completed.
Started(account) ==
  /\ pc = "prompt"
  /\ invocations = 1
  /\ connected = TRUE
  /\ credentials = "stored"
  /\ Fresh(account)

Init == Started(InitAccount)

\* The state when the module has loaded and init has run up to its await:
\* fs.readFile of the client secret and client.connect() are both pending.
InitStartup ==
  /\ pc = "readSecret"
  /\ invocations = 0
  /\ connected = FALSE
  /\ credentials = "none"
  /\ Fresh(InitAccount)

\* the tool started on any of the small accounts
InitLocate == \E account \in Accounts : Started(account)

\* the row addTrack is working on, its cache key, its query and its top candidate
Data == results[track]
Key == createRedisKey(Data)
Query == QueryOf(Data)
ResourceId == youtubeTrackData.items[1].id
\* the video id the run's record keeps for the row: that of the top candidate,
\* "" when there is none
TopVideoId ==
  IF youtubeTrackData.items = <<>> THEN "" ELSE ResourceId.videoId

\* --------------------------------------------------------------- decisions
\* the playlist created whether or not one was found
NeedsCreateAlways(found) == TRUE

\* optional chaining, youtubeTrackData[0]?.id, which never throws
TopCandidateThrowsNever(data) == FALSE

\* the duplicate branch inverted: insert when the video is a member
IsDuplicateInverted(ret) == ~ret

\* if (!exists): addPlaylist creates the playlist
NeedsCreate(found) == ~found.exists

\* youtubeTrackData[0].id: reading .id of undefined throws a TypeError
TopCandidateThrows(data) == data.items = <<>>

\* if (await videoIsAlreadyInPlaylist(...)): addTrack returns without inserting
IsDuplicate(ret) == ret

\* ------------------------------------------------------------ continuations
\* the pending remote call rejects
Fault ==
  /\ faults < MaxFaults
  /\ faults' = faults + 1

\* addPlaylist's promise is rejected: nothing catches it, the run is over
Reject(reason) ==
  /\ pc' = "rejected"
  /\ rejection' = reason
  /\ cacheData' = NilReply
  /\ youtubeTrackData' = Undefined
  /\ checked' = NoCheck
  /\ UNCHANGED <<invocations, track>>

\* for (const track of results.data) at row i: if (track) addTrack(...) runs to
\* its first await, client.get
StartTrack(i) ==
  /\ pc' = "cacheGet"
  /\ track' = i
  /\ cacheData' = NilReply
  /\ youtubeTrackData' = Undefined
  /\ checked' = NoCheck
  /\ UNCHANGED <<invocations, rejection>>

\* the loop is over: addPlaylist(auth) is called again and waits at the prompt
Recurse ==
  /\ pc' = "prompt"
  /\ invocations' = invocations + 1
  /\ track' = 0
  /\ cacheData' = NilReply
  /\ youtubeTrackData' = Undefined
  /\ checked' = NoCheck
  /\ UNCHANGED rejection

\* the for loop continues at row i; h is the run's record so far.  A row is an
\* object, so if (track) holds for every row and none is skipped.
Loop(i, h) ==
  IF i <= Len(results)
  THEN StartTrack(i) /\ hist' = [h EXCEPT !.touched = FALSE]
  ELSE Recurse /\ hist' = [h EXCEPT !.completed = TRUE]

\* ------------------------------------------------------------------ actions
\* getCsvFile: the user picks a file at the prompt; its rows are parsed and the
\* title derived; addPlaylist goes on to playlistAlreadyExists, which lists
Prompt(file, rows) ==
  /\ UNCHANGED startup
  /\ pc = "prompt"
  /\ UNCHANGED faults
  /\ runs < MaxRuns
  /\ runs' = runs + 1
  /\ filename' = TitleOf(file)
  /\ results' = rows
  /\ exists' = FALSE
  /\ existingId' = NullId
  /\ resolvedId' = NullId
  /\ pc' = "locate"
  /\ hist' = [NoHist EXCEPT
                !.again = runs > 0 /\ TitleOf(file) = filename /\ rows = results,
                !.prevOK = hist.completed /\ ~hist.insertFailed,
                !.prevId = resolvedId,
                !.exchangeFailed = hist.exchangeFailed]
  /\ UNCHANGED <<invocations, track, cacheData, youtubeTrackData, checked,
                 rejection, playlists, cache, written>>

\* getCsvFile: the user picks 'exit': process.exit()
PromptExit ==
  /\ UNCHANGED startup
  /\ pc = "prompt"
  /\ UNCHANGED faults
  /\ pc' = "exited"
  /\ UNCHANGED <<invocations, runs, filename, results, exists, existingId,
                 resolvedId, track, cacheData, youtubeTrackData, checked,
                 rejection, playlists, cache, written, hist>>

\* getCsvFile: the prompt or the read of the file throws; logged and rethrown
PromptFails ==
  /\ UNCHANGED startup
  /\ pc = "prompt"
  /\ Fault
  /\ runs < MaxRuns
  /\ Reject("CsvError")
  /\ UNCHANGED <<runs, filename, results, exists, existingId, resolvedId,
                 playlists, cache, written, hist>>

\* playlistAlreadyExists returns; if (!exists) playlists.insert is called,
\* else the loop starts
LocateReturns ==
  /\ UNCHANGED startup
  /\ pc = "locate"
  /\ UNCHANGED faults
  /\ LET found == playlistAlreadyExists(ListPlaylists(playlists), filename)
     IN /\ exists' = found.exists
        /\ existingId' = found.id
        /\ resolvedId' = found.id
        /\ IF NeedsCreate(found)
           THEN /\ pc' = "create"
                /\ hist' = [hist EXCEPT !.creates = @ + 1,
                                        !.beyond = Titled(playlists, filename) # {}]
                /\ UNCHANGED <<invocations, track, cacheData, youtubeTrackData,
                               checked, rejection>>
           ELSE Loop(1, hist)
  /\ UNCHANGED <<runs, filename, results, playlists, cache, written>>

\* playlists.list rejects inside a try/catch like the one of the create call:
\* logged, and addPlaylist goes on as if no playlist had been found
LocateFailsCaught ==
  /\ UNCHANGED startup
  /\ pc = "locate"
  /\ Fault
  /\ exists' = FALSE
  /\ existingId' = NullId
  /\ resolvedId' = NullId
  /\ pc' = "create"
  /\ hist' = [hist EXCEPT !.creates = @ + 1]
  /\ UNCHANGED <<invocations, runs, filename, results, track, cacheData,
                 youtubeTrackData, checked, rejection, playlists, cache,
                 written>>

\* playlists.list rejects: playlistAlreadyExists and addPlaylist reject
LocateFails ==
  /\ UNCHANGED startup
  /\ pc = "locate"
  /\ Fault
  /\ Reject("PlaylistLookupFailed")
  /\ UNCHANGED <<runs, filename, results, exists, existingId, resolvedId,
                 playlists, cache, written, hist>>

\* playlists.insert returns the new playlist: resolvedId = id; the loop starts
CreateReturns(first) ==
  /\ UNCHANGED startup
  /\ pc = "create"
  /\ UNCHANGED faults
  /\ resolvedId' = NewId(playlists)
  /\ playlists' = CreatePlaylist(playlists, filename, first)
  /\ Loop(1, hist)
  /\ UNCHANGED <<runs, filename, results, exists, existingId, cache, written>>

\* playlists.insert rejects: caught and logged, resolvedId stays null; the loop
\* starts
CreateFails ==
  /\ UNCHANGED startup
  /\ pc = "create"
  /\ Fault
  /\ Loop(1, [hist EXCEPT !.createFailed = TRUE])
  /\ UNCHANGED <<runs, filename, results, exists, existingId, resolvedId,
                 playlists, cache, written>>

\* client.get returns: a truthy reply is parsed and, if it is an array, written
\* back (client.set is called), else the resolve throws; on a falsy reply
\* search.list is called
CacheGetReturns ==
  /\ connected
  /\ UNCHANGED startup
  /\ pc = "cacheGet"
  /\ UNCHANGED faults
  /\ LET reply == RedisGet(cache, Key)
     IN IF Truthy(reply)
        THEN IF ~isArray(JSONparse(reply.str))
             THEN /\ Reject("NoSearchResults")
                  /\ hist' = [hist EXCEPT !.message = NoItemsMessage(Query)]
             ELSE /\ cacheData' = reply
                  /\ youtubeTrackData' = JSONparse(reply.str)
                  /\ pc' = "cacheSet"
                  /\ hist' = hist
                  /\ UNCHANGED <<invocations, track, checked, rejection>>
        ELSE /\ cacheData' = reply
             /\ youtubeTrackData' = youtubeTrackData
             /\ pc' = "search"
             /\ hist' = [hist EXCEPT !.searched = TRUE]
             /\ UNCHANGED <<invocations, track, checked, rejection>>
  /\ UNCHANGED <<runs, filename, results, exists, existingId, resolvedId,
                 playlists, cache, written>>

\* search.list returns items; if it is no array the resolve throws, else
\* client.set is called
SearchReturns(items) ==
  /\ UNCHANGED startup
  /\ pc = "search"
  /\ UNCHANGED faults
  /\ IF ~isArray(items)
     THEN /\ Reject("NoSearchResults")
          /\ hist' = [hist EXCEPT !.message = NoItemsMessage(Query)]
     ELSE /\ youtubeTrackData' = items
          /\ pc' = "cacheSet"
          /\ UNCHANGED <<invocations, track, rejection, cacheData, checked,
                         hist>>
  /\ UNCHANGED <<runs, filename, results, exists, existingId, resolvedId,
                 playlists, cache, written>>

\* client.set returns; client.expire is called
CacheSetReturns ==
  /\ connected
  /\ UNCHANGED startup
  /\ pc = "cacheSet"
  /\ UNCHANGED faults
  /\ cache' = RedisSet(cache, Key, JSONstringify(youtubeTrackData))
  /\ written' = [written EXCEPT ![Key] = youtubeTrackData]
  /\ pc' = "cacheExpire"
  /\ hist' = [hist EXCEPT !.touched = TRUE, !.wrote = @ \cup {<<Key, Data>>}]
  /\ UNCHANGED <<invocations, runs, filename, results, exists, existingId,
                 resolvedId, track, cacheData, youtubeTrackData, checked,
                 rejection, playlists>>

\* client.expire returns; the resolve returns youtubeTrackData; addTrack reads
\* youtubeTrackData[0].id, a TypeError on an empty array, and calls
\* videoIsAlreadyInPlaylist, which lists
CacheExpireReturns ==
  /\ connected
  /\ UNCHANGED startup
  /\ pc = "cacheExpire"
  /\ UNCHANGED faults
  /\ cache' = RedisExpire(cache, Key, CacheTtl)
  /\ IF TopCandidateThrows(youtubeTrackData)
     THEN Reject("TypeError") /\ hist' = hist
     ELSE /\ pc' = "isMember"
          /\ hist' = [hist EXCEPT
                        !.resolved = Append(@, <<track, TopVideoId>>)]
          /\ UNCHANGED <<invocations, track, rejection, cacheData,
                         youtubeTrackData, checked>>
  /\ UNCHANGED <<runs, filename, results, exists, existingId, resolvedId,
                 playlists, written>>

\* a command of the Redis client rejects: the resolve, addTrack and addPlaylist
\* reject
CacheFails ==
  /\ UNCHANGED startup
  /\ pc \in {"cacheGet", "cacheSet", "cacheExpire"}
  /\ Fault
  /\ Reject("CacheError")
  /\ UNCHANGED <<runs, filename, results, exists, existingId, resolvedId,
                 playlists, cache, written, hist>>

\* search.list rejects
SearchFails ==
  /\ UNCHANGED startup
  /\ pc = "search"
  /\ Fault
  /\ Reject("SearchFailed")
  /\ UNCHANGED <<runs, filename, results, exists, existingId, resolvedId,
                 playlists, cache, written, hist>>

\* videoIsAlreadyInPlaylist returns: a member is logged and addTrack returns
\* (the loop goes on); otherwise playlistItems.insert is called
IsMemberReturns ==
  /\ UNCHANGED startup
  /\ pc = "isMember"
  /\ UNCHANGED faults
  /\ LET ret == videoIsAlreadyInPlaylist(playlists, ResourceId.videoId, resolvedId)
     IN IF IsDuplicate(ret)
        THEN Loop(track + 1, hist)
        ELSE /\ pc' = "insert"
             /\ checked' = [done |-> TRUE, videoId |-> ResourceId.videoId,
                            playlistId |-> resolvedId, ret |-> ret]
             /\ UNCHANGED <<invocations, track, cacheData, youtubeTrackData,
                            rejection, hist>>
  /\ UNCHANGED <<runs, filename, results, exists, existingId, resolvedId,
                 playlists, cache, written>>

\* playlistItems.list rejects, by a fault or because the service refuses the
\* null playlistId: videoIsAlreadyInPlaylist, addTrack and addPlaylist reject
IsMemberFails ==
  /\ UNCHANGED startup
  /\ pc = "isMember"
  /\ IF PlaylistExists(playlists, resolvedId) THEN Fault ELSE UNCHANGED faults
  /\ Reject("MembershipCheckFailed")
  /\ UNCHANGED <<runs, filename, results, exists, existingId, resolvedId,
                 playlists, cache, written, hist>>

\* playlistItems.insert returns: logged; addTrack returns and the loop goes on.
\* The service inserts only into a playlist that exists.
InsertReturns ==
  /\ UNCHANGED startup
  /\ pc = "insert"
  /\ UNCHANGED faults
  /\ PlaylistExists(playlists, resolvedId)
  /\ playlists' = InsertItem(playlists, resolvedId, ResourceId.videoId)
  /\ Loop(track + 1,
          [hist EXCEPT !.inserts = @ + 1,
                       !.inserted = Append(@, <<track, ResourceId.videoId>>)])
  /\ UNCHANGED <<runs, filename, results, exists, existingId, resolvedId,
                 cache, written>>

\* playlistItems.insert rejects, by a fault or because there is no such
\* playlist: caught and logged; addTrack returns and the loop goes on
InsertFails ==
  /\ UNCHANGED startup
  /\ pc = "insert"
  /\ IF PlaylistExists(playlists, resolvedId) THEN Fault ELSE UNCHANGED faults
  /\ Loop(track + 1, [hist EXCEPT !.insertFailed = TRUE])
  /\ UNCHANGED <<runs, filename, results, exists, existingId, resolvedId,
                 playlists, cache, written>>

\* time passes while the coroutine is suspended
Tick ==
  /\ UNCHANGED startup
  /\ runs < MaxRuns \/ pc \notin {"prompt", "rejected", "exited"}
  /\ UNCHANGED faults
  /\ cache' = Age(cache, TickStep)
  /\ cache' # cache
  /\ written' = [k \in Keys |-> IF cache'[k].present THEN written[k] ELSE Undefined]
  /\ UNCHANGED <<pc, invocations, runs, filename, results, exists, existingId,
                 resolvedId, track, cacheData, youtubeTrackData, checked,
                 rejection, playlists, hist>>

\* the operator starts the tool again after it ended: init, authorize and
\* addPlaylist up to the prompt; the account and the store are as they were left
Restart ==
  /\ UNCHANGED startup
  /\ pc \in {"rejected", "exited"}
  /\ UNCHANGED faults
  /\ runs < MaxRuns
  /\ pc' = "prompt"
  /\ invocations' = 1
  /\ rejection' = "none"
  /\ track' = 0
  /\ cacheData' = NilReply
  /\ youtubeTrackData' = Undefined
  /\ checked' = NoCheck
  /\ UNCHANGED <<runs, filename, results, exists, existingId, resolvedId,
                 playlists, cache, written, hist>>

\* ------------------------------------------------------------------ startup
\* what the startup callbacks leave alone: the locals of addPlaylist, the
\* account and the store
work ==
  <<runs, filename, results, exists, existingId, resolvedId, track, cacheData,
    youtubeTrackData, checked, rejection, playlists, cache, written, hist>>

\* callback(oauth2Client): addPlaylist is invoked and waits at the prompt of
\* getCsvFile
Callback ==
  /\ pc' = "prompt"
  /\ invocations' = invocations + 1

\* client.connect() completes: init returns
ConnectReturns ==
  /\ ~connected
  /\ pc # "exited"
  /\ connected' = TRUE
  /\ UNCHANGED <<pc, invocations, credentials, faults, work>>

\* processClientSecrets with the content of client_secret.json: authorize builds
\* the OAuth2 client and reads the token file
ReadSecretReturns ==
  /\ pc = "readSecret"
  /\ pc' = "readToken"
  /\ UNCHANGED <<invocations, connected, credentials, faults, work>>

\* processClientSecrets with err: logged, and nothing more is started
ReadSecretFails ==
  /\ pc = "readSecret"
  /\ Fault
  /\ pc' = "idle"
  /\ UNCHANGED <<invocations, connected, credentials, work>>

\* the callback of the token read: with a token, the credentials are parsed
\* from it and the callback is called; with err or no token, getNewToken prints
\* the URL and createServer listens for the redirect
ReadTokenReturns(token) ==
  /\ pc = "readToken"
  /\ IF token
     THEN credentials' = "stored" /\ Callback
     ELSE pc' = "awaitCode" /\ UNCHANGED <<credentials, invocations>>
  /\ UNCHANGED <<connected, faults, work>>

\* the redirect arrives with a code: oauth2Client.getToken is called
CodeArrives ==
  /\ pc = "awaitCode"
  /\ pc' = "exchange"
  /\ UNCHANGED <<invocations, connected, credentials, faults, work>>

\* the redirect arrives with q.error: logged, the server keeps listening
ErrorArrives ==
  /\ pc = "awaitCode"
  /\ Fault
  /\ UNCHANGED <<pc, invocations, connected, credentials, work>>

\* getToken answers with a token: the credentials are set, storeToken writes
\* the token file, the callback is called
ExchangeReturns ==
  /\ pc = "exchange"
  /\ credentials' = "exchanged"
  /\ Callback
  /\ UNCHANGED <<connected, faults, work>>

\* getToken answers with err: logged, the callback of getToken returns; the
\* server keeps listening
ExchangeFails ==
  /\ pc = "exchange"
  /\ Fault
  /\ pc' = "awaitCode"
  /\ hist' = [hist EXCEPT !.exchangeFailed = TRUE]
  /\ UNCHANGED <<invocations, connected, credentials, runs, filename, results,
                 exists, existingId, resolvedId, track, cacheData,
                 youtubeTrackData, checked, rejection, playlists, cache,
                 written>>

\* getToken answers with a token but fs.mkdirSync of storeToken throws (not
\* EEXIST): the credentials are set and the callback is never called
StoreTokenThrows ==
  /\ pc = "exchange"
  /\ Fault
  /\ credentials' = "exchanged"
  /\ pc' = "idle"
  /\ UNCHANGED <<invocations, connected, work>>

\* the operator starts the tool again after it ended: the module loads and init
\* runs up to its await; the account and the store are as they were left
Relaunch ==
  /\ pc \in {"rejected", "exited", "idle"}
  /\ runs < MaxRuns
  /\ pc' = "readSecret"
  /\ invocations' = 0
  /\ connected' = FALSE
  /\ credentials' = "none"
  /\ rejection' = "none"
  /\ track' = 0
  /\ cacheData' = NilReply
  /\ youtubeTrackData' = Undefined
  /\ checked' = NoCheck
  /\ hist' = [hist EXCEPT !.exchangeFailed = FALSE]
  /\ UNCHANGED <<runs, filename, results, exists, existingId, resolvedId,
                 playlists, cache, written, faults>>

\* every step of addPlaylist but the selection of a file, and the clock
Steps ==
  \/ PromptExit
  \/ PromptFails
  \/ LocateReturns
  \/ LocateFails
  \/ \E first \in BOOLEAN : CreateReturns(first)
  \/ CreateFails
  \/ CacheGetReturns
  \/ \E items \in SearchItems : SearchReturns(items)
  \/ CacheSetReturns
  \/ CacheExpireReturns
  \/ CacheFails
  \/ SearchFails
  \/ IsMemberReturns
  \/ IsMemberFails
  \/ InsertReturns
  \/ InsertFails
  \/ Tick

\* every step but the selection of a file
Others ==
  \/ Steps
  \/ Restart

Next ==
  \/ \E file \in FileNames, rows \in RowSeqs : Prompt(file, rows)
  \/ Others

Spec == Init /\ [][Next]_vars

\* The same program on one file of MaxRows + 1 rows, whose playlist the account
\* does not have yet.
NextLong ==
  \/ \E rows \in LongRowSeqs : Prompt(FileMyL, rows)
  \/ Others

SpecLong == Init /\ [][NextLong]_vars

\* The same program on files whose rows have no artist and no track.
NextBlank ==
  \/ \E file \in FileNames, rows \in BlankRowSeqs : Prompt(file, rows)
  \/ Others

SpecBlank == Init /\ [][NextBlank]_vars

\* The same program on files whose rows hold a '-' in their fields.
NextDash ==
  \/ \E file \in FileNames, rows \in DashRowSeqs : Prompt(file, rows)
  \/ Others

SpecDash == Init /\ [][NextDash]_vars

\* The program on the small accounts and on files with no rows: the prompt, the
\* locator and the creation of the playlist.
NextLocate ==
  \/ \E file \in FileNames : Prompt(file, <<>>)
  \/ PromptExit
  \/ PromptFails
  \/ LocateReturns
  \/ LocateFails
  \/ \E first \in BOOLEAN : CreateReturns(first)
  \/ CreateFails
  \/ Restart

SpecLocate == InitLocate /\ [][NextLocate]_vars

\* The process from its start: the startup callbacks and the cache connect run
\* side by side, then addPlaylist works on a file of at most one row.
NextStartup ==
  \/ ConnectReturns
  \/ ReadSecretReturns
  \/ ReadSecretFails
  \/ \E token \in BOOLEAN : ReadTokenReturns(token)
  \/ CodeArrives
  \/ ErrorArrives
  \/ ExchangeReturns
  \/ ExchangeFails
  \/ StoreTokenThrows
  \/ \E rows \in ShortRowSeqs : Prompt(FileMyL, rows)
  \/ Steps
  \/ Relaunch

SpecStartup == InitStartup /\ [][NextStartup]_vars

\* ------------------------------------------------------------------- claims

\* C1 (as stated): a run with the title and the rows of the run before it
\* inserts nothing; read with the run before having completed its pass with no
\* failed insert, and with no remote call having failed at all.
C1_SecondRunInsertsNothing ==
  (hist.again /\ hist.prevOK /\ faults = 0) => hist.inserts = 0

\* C1 (amended): a run with the title and the rows of the run before it inserts
\* nothing, provided the run before completed its pass with no failed insert,
\* the locator resolved the playlist that run used, and every row so far was
\* resolved from the cache (no remote search in this run).
C1_Idempotent ==
  (/\ hist.again
   /\ hist.prevOK
   /\ ~hist.searched
   /\ resolvedId = hist.prevId) => hist.inserts = 0

\* C1 witness: such a second run went over two rows and inserted nothing.
C1_Witness ==
  /\ hist.again
  /\ hist.prevOK
  /\ ~hist.searched
  /\ resolvedId = hist.prevId
  /\ hist.completed
  /\ Len(results) >= 2
  /\ hist.inserts = 0

\* number of times video v is an item of playlist pl
Occurrences(pl, v) == Cardinality({j \in 1..Len(pl.items) : pl.items[j] = v})

\* C2: no video is an item of the same playlist more than once.
C2_NoDuplicate ==
  \A i \in 1..Len(playlists) : \A v \in Videos : Occurrences(playlists[i], v) <= 1

\* C2 witness: a run over the rows (A,X),(A,X) on a playlist it created has
\* completed, with one insert, and the playlist holds exactly one item.
C2_Witness ==
  /\ hist.completed
  /\ results = <<TrackAX, TrackAX>>
  /\ hist.creates = 1
  /\ hist.inserts = 1
  /\ \E i \in 1..Len(playlists) :
       playlists[i].id = resolvedId /\ Len(playlists[i].items) = 1

\* C3: whenever playlistItems.insert is pending for (videoId, playlistId), the
\* membership check of this row was made for that same pair and returned false.
C3_CheckedBeforeInsert ==
  pc = "insert" =>
    /\ checked.done
    /\ checked.videoId = ResourceId.videoId
    /\ checked.playlistId = resolvedId
    /\ checked.ret = FALSE

\* C3 witness: an insert is pending for a playlist that already holds another
\* video.
C3_Witness ==
  /\ pc = "insert"
  /\ \E i \in 1..Len(playlists) :
       playlists[i].id = resolvedId /\ playlists[i].items # <<>>

\* C4: a resolve whose client.get finds a live entry issues no search and
\* carries on with the sequence returned by the resolve that wrote the entry.
C4_CacheAuthoritative ==
  [][(pc = "cacheGet" /\ cache[Key].present /\ pc' \notin {"cacheGet", "rejected"})
       => (pc' = "cacheSet" /\ youtubeTrackData' = written[Key])]_vars

\* C4 witness: in a second run, a resolve took a non-empty sequence from the
\* cache.
C4_Witness ==
  /\ runs = 2
  /\ pc = "cacheSet"
  /\ ~cacheData.nil
  /\ youtubeTrackData.items # <<>>

\* C5 (as stated): a run that ended on a row failing with NoSearchResults has
\* attempted every row, so that row is the last one.
C5_ContinuesPastNoSearchResults ==
  (pc = "rejected" /\ rejection = "NoSearchResults") => track = Len(results)

\* C6 (as stated): addPlaylist is invoked once; after its pass it does not
\* invoke the import again.
C6_SinglePass == invocations <= 1

\* C7: create is called at most once per run and only when the locator reported
\* not-found; when it found a playlist, that playlist has the target title and
\* its id is the one resolved and used by the membership check and the insert.
C7_PlaylistReuse ==
  /\ hist.creates <= 1
  /\ pc = "create" => ~exists
  /\ hist.creates = 1 => ~exists
  /\ exists =>
       /\ resolvedId = existingId
       /\ \E i \in 1..Len(playlists) :
            playlists[i].id = existingId /\ playlists[i].snippet.title = filename
       /\ pc = "insert" => checked.playlistId = existingId

\* C7 witness: an insert is pending on a playlist the locator found.
C7_Witness == exists /\ pc = "insert"

\* C8: when client.expire has answered in a resolve that hit the cache, the
\* entry is present with a TTL of 86400 seconds.
C8_TtlRearmed ==
  [][(/\ pc = "cacheExpire"
      /\ Truthy(cacheData)
      /\ \/ pc' = "isMember"
         \/ pc' = "rejected" /\ rejection' = "TypeError")
       => (cache'[Key].present /\ cache'[Key].ttl = 86400)]_vars

\* C8 witness: a resolve that hit the cache has returned, and the entry has the
\* full TTL while the other key has aged.
C8_Witness ==
  /\ pc = "isMember"
  /\ Truthy(cacheData)
  /\ cache[Key].ttl = 86400
  /\ \E k \in Keys : cache[k].present /\ cache[k].ttl \notin {NoExpiry, 86400}

C10_VisitsEveryRow ==
  (/\ hist.createFailed
   /\ pc = "rejected"
   /\ rejection \notin {"NoSearchResults", "TypeError"}) => track = Len(results)

\* C11 (as stated): in a run on a playlist it found or created, once an insert
\* has failed at a row, every row after it is attempted: the run does not end
\* before the last row.
C11_AttemptsEveryLaterRecord ==
  (hist.insertFailed /\ ~hist.createFailed /\ pc = "rejected")
    => track = Len(results)

\* the first row of the run whose resolve returned video v
FirstRow(v) ==
  LET rows == {hist.resolved[j][1] :
                 j \in {j \in 1..Len(hist.resolved) : hist.resolved[j][2] = v}}
  IN CHOOSE r \in rows : \A q \in rows : r <= q

\* rows are taken one at a time and in order: the loop moves to the next row
\* only when the membership check or the insert of the row has answered
OneRowAtATime ==
  track' # track =>
    \/ track' = 0
    \/ track' = track + 1 /\ (track = 0 \/ pc \in {"isMember", "insert"})

\* the videos inserted in the run are the last items of the playlist, in the
\* order of the rows that inserted them
InsertedInRowOrder ==
  /\ \A a, b \in 1..Len(hist.inserted) :
       a < b => hist.inserted[a][1] < hist.inserted[b][1]
  /\ \A i \in 1..Len(playlists) :
       (playlists[i].id = resolvedId /\ pc # "prompt") =>
         LET n == Len(playlists[i].items)
             m == Len(hist.inserted)
         IN /\ m <= n
            /\ \A a \in 1..m : playlists[i].items[n - m + a] = hist.inserted[a][2]

\* the videos inserted in the run are in the order of their first occurrence,
\* the first row of the input that resolved to them
InsertedInFirstOccurrenceOrder ==
  \A a, b \in 1..Len(hist.inserted) :
    a < b => FirstRow(hist.inserted[a][2]) < FirstRow(hist.inserted[b][2])

\* C12 (as stated): the videos a run inserted appear in the order of their first
\* occurrence in the input.
C12_FirstOccurrenceOrder == InsertedInFirstOccurrenceOrder

\* C12 (amended): rows are processed one at a time in input order, and the
\* videos a run inserted are the last items of the playlist in the order of the
\* rows that inserted them, which is the order of their first occurrence in the
\* input when no insert of the run failed.
C12_Sequential ==
  /\ [][OneRowAtATime]_vars
  /\ [](InsertedInRowOrder)
  /\ [](~hist.insertFailed => InsertedInFirstOccurrenceOrder)

\* C12 witness: a run over three rows, the third a repeat of the first, has
\* completed with two different videos inserted, at rows 1 and 2.
C12_Witness ==
  /\ hist.completed
  /\ Len(results) = 3
  /\ results[3] = results[1]
  /\ Len(hist.resolved) = 3
  /\ Len(hist.inserted) = 2
  /\ hist.inserted[1][2] # hist.inserted[2][2]

\* whether a row has an artist or a track to search for
Usable(data) ==
  \/ ArtistCol \in DOMAIN data /\ data[ArtistCol] # ""
  \/ NameCol \in DOMAIN data /\ data[NameCol] # ""

\* C13 (as stated): no insert is ever issued for a row that has neither an
\* artist nor a track.
C13_NoInsertWithoutIdentity == pc = "insert" => Usable(Data)

\* C14: a resolve that ended with the "no items" error has issued no client.set
\* and no client.expire, its error carries the query "{artist} {track}" of the
\* row, and the step that throws leaves the store as it is.
C14_NoSearchResultsLeavesCache ==
  /\ []((pc = "rejected" /\ rejection = "NoSearchResults") =>
          /\ ~hist.touched
          /\ hist.message =
               "No items were returned for query: "
                 \o results[track][ArtistCol] \o " " \o results[track][NameCol])
  /\ [][(pc = "search" /\ pc' = "rejected" /\ rejection' = "NoSearchResults")
         => (cache' = cache /\ written' = written)]_vars

\* C14 witness: the second row of a run failed with the "no items" error while
\* the store holds the entry the first row wrote.
C14_Witness ==
  /\ pc = "rejected"
  /\ rejection = "NoSearchResults"
  /\ track = 2
  /\ hist.wrote # {}
  /\ \E k \in Keys : cache[k].present

\* the places of the playlists of the target title on the page of 20
OnPage == {i \in 1..Len(playlists) : i <= 20 /\ playlists[i].snippet.title = filename}
\* the places of the playlists of the target title past the page of 20
PastPage == {i \in 1..Len(playlists) : i > 20 /\ playlists[i].snippet.title = filename}

\* the locator has answered in this step
LocateAnswered == pc = "locate" /\ pc' \notin {"locate", "rejected"}

\* C15: the locator returns { exists: true, id } with the id of the first
\* playlist of the page whose title equals the target title, { exists: false,
\* id: null } when the page has none; exists holds exactly when id is not null.
C15_LocateResult ==
  [][LocateAnswered =>
       /\ OnPage = {} => (~exists' /\ existingId' = NullId)
       /\ OnPage # {} =>
            /\ exists'
            /\ \E i \in OnPage :
                 (\A j \in OnPage : i <= j) /\ existingId' = playlists[i].id
       /\ exists' <=> existingId' # NullId]_vars

\* C15 witness: on the account "a", "A", "A" the locator returned the second
\* playlist for the title "A".
C15_Witness ==
  /\ exists
  /\ filename = "A"
  /\ Len(playlists) = 3
  /\ playlists[1].snippet.title = "a"
  /\ playlists[2].snippet.title = "A"
  /\ playlists[3].snippet.title = "A"
  /\ existingId = playlists[2].id

\* C16: when the account has a playlist of the target title past the first 20
\* and none among them, the locator reports not-found and create is called;
\* once create has returned, the run works on the new playlist of the same
\* title, and the videos it inserts are that playlist's items.
C16_FirstPageCap ==
  /\ [][(LocateAnswered /\ OnPage = {} /\ PastPage # {})
         => (~exists' /\ existingId' = NullId /\ pc' = "create")]_vars
  /\ [](hist.beyond =>
          /\ ~exists
          /\ hist.creates = 1
          /\ pc = "insert" => checked.playlistId = resolvedId
          /\ resolvedId # NullId =>
               /\ Cardinality(Titled(playlists, filename)) >= 2
               /\ \E i \in Titled(playlists, filename) :
                    /\ playlists[i].id = resolvedId
                    /\ Len(playlists[i].items) = Len(hist.inserted)
                    /\ \A a \in 1..Len(hist.inserted) :
                         playlists[i].items[a] = hist.inserted[a][2])

\* C16 witness: a run that found the title only past the page has completed on
\* the second playlist it created, with two inserts.
C16_Witness ==
  /\ hist.beyond
  /\ hist.completed
  /\ resolvedId # NullId
  /\ hist.inserts = 2

\* C17 (as stated): whenever a command of the Redis client is pending for the
\* resolver, the connection of the client has completed.
C17_ConnectedBeforeUse ==
  pc \in {"cacheGet", "cacheSet", "cacheExpire"} => connected

\* C18 (as stated): outside the set-then-expire window of a resolve, every
\* entry of the store has an expiry, of at most 86400 seconds.
C18_EveryEntryExpires ==
  pc \notin {"cacheSet", "cacheExpire"} =>
    \A k \in Keys :
      cache[k].present => (cache[k].ttl # NoExpiry /\ cache[k].ttl <= 86400)

\* C19 (as stated): an entry a resolve takes from the cache was not written,
\* earlier in the run, for a row of another (artist, track) pair.
C19_EntryOfSamePair ==
  (pc = "cacheSet" /\ Truthy(cacheData)) =>
    \A w \in hist.wrote :
      w[1] = Key =>
        /\ w[2][ArtistCol] = Data[ArtistCol]
        /\ w[2][NameCol] = Data[NameCol]

\* C20: when the listing call of the locator fails, addPlaylist is rejected in
\* that step, with the account and the store as they were; the run has then
\* called no create and started no row (no resolve, no membership check, no
\* insert), and nothing it does later changes the account.
C20_LookupFailure ==
  /\ [][(pc = "locate" /\ faults' # faults) =>
          /\ pc' = "rejected"
          /\ rejection' = "PlaylistLookupFailed"
          /\ playlists' = playlists
          /\ cache' = cache
          /\ hist' = hist]_vars
  /\ []((pc = "rejected" /\ rejection = "PlaylistLookupFailed") =>
          /\ hist.creates = 0
          /\ track = 0
          /\ hist.inserts = 0
          /\ ~hist.searched
          /\ hist.resolved = <<>>
          /\ hist.wrote = {})
  /\ [][(pc = "rejected" /\ rejection = "PlaylistLookupFailed") =>
          playlists' = playlists]_vars

\* C20 witness: the lookup of a second run, on a file with rows, has failed
\* while the account and the store hold what the first run left.
C20_Witness ==
  /\ pc = "rejected"
  /\ rejection = "PlaylistLookupFailed"
  /\ runs = 2
  /\ Len(results) >= 1
  /\ \E k \in Keys : cache[k].present
  /\ Len(playlists) > Len(InitAccount)

\* C21 (as stated): once a token exchange of the process has failed, addPlaylist
\* is never invoked in it: the process stays in its startup, and no prompt,
\* search, playlist or cache call is ever pending.
C21_FailedExchangeIsFatal ==
  hist.exchangeFailed =>
    (invocations = 0 /\ pc \in {"awaitCode", "exchange", "idle"})

====
